---- MODULE Spec2Model ----
(***************************************************************************)
(* Asmbly member data retrieval: the paginated account fetcher, the        *)
(* per-account aggregator with its two concurrent sub-fetches, the batch   *)
(* driver of Archived/get_all_neon_member_data.py and the forum fetch of   *)
(* helpers/discourse_helpers.py, as one state machine.                     *)
(*                                                                         *)
(* Every GET attempt is one step; its response status is chosen by the     *)
(* remote service.  Durations are in milliseconds.                         *)
(***************************************************************************)
EXTENDS Integers, Sequences, FiniteSets, TLC

VARIABLES
    entry,                    \* the entry point being run: main() or get_discourse_data()
    mainPc,                   \* position of main() and of the get_all_accounts generator it drives
    page,                     \* get_all_accounts: page
    i_page,                   \* get_all_accounts: iterations of the retry loop completed without break
    accounts_json,            \* get_all_accounts: accounts_json (kept across pages by the generator frame)
    cur,                      \* main: page (the payload received from the generator)
    accts,                    \* main: accts
    k,                        \* main: position of the loop `for i in accts` (1-based)
    acct,                     \* main: acct
    frames,                   \* main: frames (the neon_id of each appended member_df)
    err,                      \* the exception that ended the run, "" when none
    acctPc,                   \* position of get_individual_account
    i_acct,                   \* get_individual_account: retry loop iterations completed without break
    account_json,             \* get_individual_account: account_json
    memPc,                    \* position of the task running get_acct_membership_data
    i_mem,                    \* get_acct_membership_data: retry loop iterations completed without break
    memberships_json,         \* get_acct_membership_data: memberships_json
    memResult,                \* memberships.result()
    evPc,                     \* position of the task running get_acct_event_registrations
    i_regs,                   \* get_acct_event_registrations: first retry loop, iterations without break
    event_registrations_json, \* get_acct_event_registrations: event_registrations_json
    r,                        \* get_acct_event_registrations: position of `for event in ...` (1-based)
    i_event,                  \* get_acct_event_registrations: nested retry loop, iterations without break
    event_json,               \* get_acct_event_registrations: event_json (kept across registrations)
    all_registrations,        \* get_acct_event_registrations: all_registrations
    evResult,                 \* event_registrations.result()
    dPc,                      \* position of get_discourse_data
    i_disc,                   \* get_discourse_data: retry loop iterations completed without break
    data,                     \* get_discourse_data: data
    dResult,                  \* get_discourse_data: the returned value
    log,                      \* per kind of fetch: the GETs and sleeps of the logical fetch in progress
    yielded,                  \* what get_all_accounts has yielded: <<page index requested, payload>>
    processed,                \* reported currentPage of every page whose accounts main took
    allOk,                    \* every response so far had status 200
    raw,                      \* the service's data of the one account whose derivation is followed
    dpc,                      \* position in the derivation of that account's record and rows
    family_membership,        \* get_individual_account: family_membership
    member_df,                \* main: the derived columns of member_df
    row_list                  \* long-form main: row_list

vars == <<entry, mainPc, page, i_page, accounts_json, cur, accts, k, acct, frames, err,
          acctPc, i_acct, account_json,
          memPc, i_mem, memberships_json, memResult,
          evPc, i_regs, event_registrations_json, r, i_event, event_json,
          all_registrations, evResult,
          dPc, i_disc, data, dResult,
          log, yielded, processed, allOk,
          raw, dpc, family_membership, member_df, row_list>>

genVars  == <<page, i_page, accounts_json>>
mainVars == <<cur, accts, k, acct, frames>>
acctVars == <<acctPc, i_acct, account_json>>
memVars  == <<memPc, i_mem, memberships_json, memResult>>
evVars   == <<evPc, i_regs, event_registrations_json, r, i_event, event_json,
              all_registrations, evResult>>
discVars == <<dPc, i_disc, data, dResult>>
histVars == <<yielded, processed>>
dataVars == <<raw, dpc, family_membership, member_df, row_list>>

----------------------------------------------------------------------------
(* Bounds of the model and the remote service's data *)

\* totalPages reported by the collection endpoint
TotalPages == 2

\* get_all_accounts never stops by itself: the model stops it at this page index
MaxPage == 3

\* a name not bound yet (reading it raises UnboundLocalError), and Python's None
Unbound == [tag |-> "unbound"]
None == [tag |-> "None"]

Statuses == {200, 429, 502, 404}

\* `status in set([429, 502])`
Transient == {429, 502}

\* The accounts the service lists on page p: page 0 also lists a company
\* account, and the service answers with an account beyond the totalPages it
\* reports as well.
AccountsOnPage(p) ==
    IF p = 0 THEN <<[accountId |-> 9, userType |-> "COMPANY"],
                    [accountId |-> 1, userType |-> "INDIVIDUAL"]>>
    ELSE <<[accountId |-> p + 1, userType |-> "INDIVIDUAL"]>>

\* body of GET /v2/accounts?currentPage=p
PageBody(p) ==
    [tag |-> "page",
     pagination |-> [currentPage |-> p, totalPages |-> TotalPages],
     accounts |-> AccountsOnPage(p)]

\* body of GET /v2/accounts/{id}
AccountBody(id) == [tag |-> "account", accountId |-> id]

\* "memberships" of GET /v2/accounts/{id}/memberships (dates are day numbers)
MembershipsOf(id) ==
    IF id % 2 = 1
    THEN <<[fee |-> 600, termStartDate |-> 1, termEndDate |-> 365,
            termUnit |-> "YEAR", status |-> "SUCCEEDED"],
           [fee |-> 75, termStartDate |-> 366, termEndDate |-> 396,
            termUnit |-> "MONTH", status |-> "CANCELED"]>>
    ELSE <<[fee |-> 75, termStartDate |-> 10, termEndDate |-> 40,
            termUnit |-> "MONTH", status |-> "SUCCEEDED"]>>

\* "eventRegistrations" of GET /v2/accounts/{id}/eventRegistrations
RegistrationsOf(id) ==
    IF id % 2 = 1
    THEN <<[eventId |-> "e1", registrationDateTime |-> 20, registrationAmount |-> 50,
            tickets |-> <<[attendees |-> <<[registrationStatus |-> "SUCCEEDED"]>>]>>],
           [eventId |-> "e2", registrationDateTime |-> 30, registrationAmount |-> 80,
            tickets |-> <<[attendees |-> <<[registrationStatus |-> "CANCELED"]>>]>>]>>
    ELSE << >>

\* body of GET /v2/events/{event_id}; a name is the sequence of its parts around " w/"
\* e3 has no category, e4 has a category the program does not list.
EventBody(event_id) ==
    IF event_id = "e1"
    THEN [tag |-> "event", id |-> "e1", name |-> <<"Laser Basics", " w/", "Ann">>,
          startDate |-> 40, category |-> [name |-> "Laser Cutting"]]
    ELSE IF event_id = "e2"
    THEN [tag |-> "event", id |-> "e2", name |-> <<"Intro to Welding">>,
          startDate |-> 70, category |-> [name |-> "Metalworking"]]
    ELSE IF event_id = "e3"
    THEN [tag |-> "event", id |-> "e3", name |-> <<"Open House">>,
          startDate |-> 400, category |-> None]
    ELSE [tag |-> "event", id |-> "e4", name |-> <<"Glass Fusing", " w/", "Bo">>,
          startDate |-> 50, category |-> [name |-> "Stained Glass"]]

\* body of GET /u/{discourse_id}.json
DiscourseBody == [tag |-> "user", post_count |-> 3, time_read |-> 120]

----------------------------------------------------------------------------
(* Backoff policy and the record of each logical fetch *)

max_retries == 10

\* initial_delay, in milliseconds
initial_delay == 200

\* a backoff that grows linearly instead of doubling
backoff_time_linear(retry_count) == (retry_count + 1) * initial_delay

backoff_time(retry_count) == (2 ^ retry_count) * initial_delay

Kinds == {"page", "account", "memberships", "registrations", "event", "discourse"}

\* nothing issued yet for the logical fetch
Fresh == [gets |-> 0, idx |-> -1, terminal |-> FALSE, sleeps |-> << >>]

\* One GET of the fetch `kind`, issued in loop iteration i and answered with
\* `status`.  gets counts the GETs of the logical fetch, idx is the loop index of
\* the latest one, terminal tells whether a non-200, non-transient status was
\* received, sleeps lists the asyncio.sleep durations of the consecutive
\* transient responses that end at the latest GET.
Logged(kind, i, status) ==
    [log EXCEPT ![kind] =
        [gets |-> @.gets + 1,
         idx |-> i,
         terminal |-> @.terminal \/ status \notin ({200} \cup Transient),
         sleeps |-> IF status \in Transient THEN Append(@.sleeps, backoff_time(i))
                    ELSE IF status = 200 THEN @.sleeps
                    ELSE << >>]]

\* a new logical fetch of `kind` begins
Begun(lg, kind) == [lg EXCEPT ![kind] = Fresh]

\* a retry loop that runs one iteration too many
LoopGoesOnInclusive(i) == i + 1 <= max_retries

\* `for i in range(max_retries)`: the loop goes on after an iteration i that did not break
LoopGoesOn(i) == i + 1 < max_retries


\* a list decoded from a response, or built by the program
List(items) == [tag |-> "list", items |-> items]

RECURSIVE SumSeq(_)
\* `sum(...)` of a sequence of numbers
SumSeq(seq) == IF seq = << >> THEN 0 ELSE Head(seq) + SumSeq(Tail(seq))

----------------------------------------------------------------------------
(* Initial state: one run of main(), or one call of get_discourse_data() *)

Init ==
    /\ entry \in {"main", "discourse"}
    /\ mainPc = IF entry = "main" THEN "page_loop" ELSE "off"
    /\ page = 0
    /\ i_page = 0
    /\ accounts_json = Unbound
    /\ cur = None
    /\ accts = << >>
    /\ k = 1
    /\ acct = None
    /\ frames = << >>
    /\ err = ""
    /\ acctPc = "idle"
    /\ i_acct = 0
    /\ account_json = Unbound
    /\ memPc = "none"
    /\ i_mem = 0
    /\ memberships_json = Unbound
    /\ memResult = None
    /\ evPc = "none"
    /\ i_regs = 0
    /\ event_registrations_json = Unbound
    /\ r = 1
    /\ i_event = 0
    /\ event_json = Unbound
    /\ all_registrations = << >>
    /\ evResult = None
    /\ dPc = IF entry = "discourse" THEN "loop" ELSE "off"
    /\ i_disc = 0
    /\ data = Unbound
    /\ dResult = None
    /\ log = [kind \in Kinds |-> Fresh]
    /\ yielded = << >>
    /\ processed = << >>
    /\ allOk = TRUE
    /\ raw = None
    /\ dpc = "off"
    /\ family_membership = FALSE
    /\ member_df = None
    /\ row_list = << >>

----------------------------------------------------------------------------
(* get_all_accounts, driven by main's `async for` *)

\* One iteration of `for i in range(max_retries)`: the GET of the current page.
\* 200 decodes the body and breaks; 429/502 sleeps backoff_time(i); any other
\* status is printed; in both non-200 cases the loop goes on.
PageAttempt ==
    /\ mainPc = "page_loop"
    /\ \E status \in Statuses :
        /\ log' = Logged("page", i_page, status)
        /\ allOk' = (allOk /\ status = 200)
        /\ IF status = 200
           THEN /\ accounts_json' = PageBody(page)
                /\ i_page' = i_page
                /\ mainPc' = "yield"
           ELSE /\ accounts_json' = accounts_json
                /\ i_page' = i_page + 1
                /\ mainPc' = IF LoopGoesOn(i_page) THEN "page_loop" ELSE "yield"
    /\ UNCHANGED <<dataVars, entry, page, mainVars, err, acctVars, memVars, evVars, discVars, histVars>>

\* `yield accounts_json`, reached by break and by the end of the loop alike
PageYield ==
    /\ mainPc = "yield"
    /\ IF accounts_json = Unbound
       THEN /\ mainPc' = "raised"
            /\ err' = "UnboundLocalError"
            /\ UNCHANGED <<cur, yielded, log, i_page>>
       ELSE /\ mainPc' = "check"
            /\ cur' = accounts_json
            /\ yielded' = Append(yielded, [requested |-> page,
                                           got |-> accounts_json.pagination.currentPage])
            /\ log' = Begun(log, "page")
            /\ i_page' = 0
            /\ UNCHANGED err
    /\ UNCHANGED <<dataVars, entry, page, accounts_json, accts, k, acct, frames, acctVars, memVars,
                   evVars, discVars, processed, allOk>>

\* the test of the pagination metadata off by one
PageInRangeInclusive(p) == p.pagination.currentPage <= p.pagination.totalPages

\* main's test of the pagination metadata
PageInRange(p) == p.pagination.currentPage < p.pagination.totalPages

\* main: `if page["pagination"]["currentPage"] < page["pagination"]["totalPages"]`
MainTakePage ==
    /\ mainPc = "check"
    /\ PageInRange(cur)
    /\ accts' = cur.accounts
    /\ k' = 1
    /\ processed' = Append(processed, cur.pagination.currentPage)
    /\ mainPc' = "acct_loop"
    /\ UNCHANGED <<dataVars, entry, genVars, cur, acct, frames, err, acctVars, memVars, evVars,
                   discVars, log, yielded, allOk>>

\* main: `else: break`, then `return pd.concat(frames, ...)`, which raises
\* ValueError when frames is empty
MainBreak ==
    /\ mainPc = "check"
    /\ ~PageInRange(cur)
    /\ IF frames = << >>
       THEN mainPc' = "raised" /\ err' = "ValueError"
       ELSE mainPc' = "done" /\ UNCHANGED err
    /\ UNCHANGED <<dataVars, entry, genVars, mainVars, acctVars, memVars, evVars, discVars, log,
                   histVars, allOk>>

\* a loop over accts that ends before its last element
AcctsExhaustedEarly == k >= Len(accts)

\* `for i in accts` has gone through every element
AcctsExhausted == k > Len(accts)

\* main has gone through accts and asks for the next page: the generator
\* resumes after its yield, `page += 1`, and enters the retry loop again
NextPage ==
    /\ mainPc = "acct_loop"
    /\ AcctsExhausted
    /\ page < MaxPage
    /\ page' = page + 1
    /\ i_page' = 0
    /\ log' = Begun(log, "page")
    /\ mainPc' = "page_loop"
    /\ UNCHANGED <<dataVars, entry, accounts_json, mainVars, err, acctVars, memVars, evVars,
                   discVars, histVars, allOk>>

\* main: `if i["userType"] != "INDIVIDUAL": continue`
SkipAccount ==
    /\ mainPc = "acct_loop"
    /\ k <= Len(accts)
    /\ accts[k].userType # "INDIVIDUAL"
    /\ k' = k + 1
    /\ UNCHANGED <<dataVars, entry, mainPc, genVars, cur, accts, acct, frames, err, acctVars, memVars,
                   evVars, discVars, log, histVars, allOk>>

\* main: `acct = await get_individual_account(aio_session, i["accountId"])`
CallAccount ==
    /\ mainPc = "acct_loop"
    /\ k <= Len(accts)
    /\ accts[k].userType = "INDIVIDUAL"
    /\ mainPc' = "await_acct"
    /\ acctPc' = "loop"
    /\ i_acct' = 0
    /\ account_json' = Unbound
    /\ log' = Begun(log, "account")
    /\ UNCHANGED <<dataVars, entry, genVars, mainVars, err, memVars, evVars, discVars, histVars, allOk>>

\* the neon_id of the call of get_individual_account in progress
neon_id == accts[k].accountId


----------------------------------------------------------------------------
(* get_individual_account *)

\* One iteration of the retry loop on /v2/accounts/{neon_id}: 200 decodes and
\* breaks, 429/502 sleeps and goes on, any other status returns None to main.
AccountAttempt ==
    /\ acctPc = "loop"
    /\ \E status \in Statuses :
        /\ allOk' = (allOk /\ status = 200)
        /\ IF status = 200
           THEN /\ account_json' = AccountBody(neon_id)
                /\ acctPc' = "parse"
                /\ log' = Logged("account", i_acct, status)
                /\ UNCHANGED <<i_acct, acct, mainPc>>
           ELSE IF status \in Transient
           THEN /\ i_acct' = i_acct + 1
                /\ acctPc' = IF LoopGoesOn(i_acct) THEN "loop" ELSE "parse"
                /\ log' = Logged("account", i_acct, status)
                /\ UNCHANGED <<account_json, acct, mainPc>>
           ELSE /\ acct' = None
                /\ acctPc' = "idle"
                /\ mainPc' = "record"
                /\ log' = Logged("account", i_acct, status)
                /\ UNCHANGED <<i_acct, account_json>>
    /\ UNCHANGED <<dataVars, entry, genVars, cur, accts, k, frames, err, memVars, evVars, discVars,
                   histVars>>

\* The code after the loop reads account_json (contact, address and custom
\* fields); `except TypeError` does not catch the UnboundLocalError of a name
\* that no iteration bound.
AccountParse ==
    /\ acctPc = "parse"
    /\ IF account_json = Unbound
       THEN /\ acctPc' = "raised"
            /\ mainPc' = "raised"
            /\ err' = "UnboundLocalError"
            /\ UNCHANGED <<log, i_acct>>
       ELSE /\ acctPc' = "create_mem"
            /\ log' = Begun(log, "account")
            /\ i_acct' = 0
            /\ UNCHANGED <<mainPc, err>>
    /\ UNCHANGED <<dataVars, entry, genVars, mainVars, account_json, memVars, evVars, discVars,
                   histVars, allOk>>

\* `memberships = tg.create_task(get_acct_membership_data(aio_session, neon_id))`
CreateMembershipsTask ==
    /\ acctPc = "create_mem"
    /\ acctPc' = "create_ev"
    /\ memPc' = "loop"
    /\ i_mem' = 0
    /\ memberships_json' = Unbound
    /\ memResult' = None
    /\ log' = Begun(log, "memberships")
    /\ UNCHANGED <<dataVars, entry, mainPc, genVars, mainVars, err, i_acct, account_json, evVars,
                   discVars, histVars, allOk>>

\* `event_registrations = tg.create_task(get_acct_event_registrations(...))`;
\* leaving the `async with` block then awaits both tasks
CreateRegistrationsTask ==
    /\ acctPc = "create_ev"
    /\ acctPc' = "join"
    /\ evPc' = "loop"
    /\ i_regs' = 0
    /\ event_registrations_json' = Unbound
    /\ r' = 1
    /\ i_event' = 0
    /\ event_json' = Unbound
    /\ all_registrations' = << >>
    /\ evResult' = None
    /\ log' = Begun(log, "registrations")
    /\ UNCHANGED <<dataVars, entry, mainPc, genVars, mainVars, err, i_acct, account_json, memVars,
                   discVars, histVars, allOk>>

\* a task that runs as soon as it is created, as an awaited call would
TasksMayRunWhenCreated == acctPc \in {"create_ev", "join"}

\* A task runs only while get_individual_account is suspended in the
\* TaskGroup's exit: the event loop is cooperative.
TasksMayRun == acctPc = "join"

\* the other task of the group when one raises: cancelled unless already done
Cancelled(pc) == IF pc = "done" THEN "done" ELSE "cancelled"

\* the locals of a task that is gone
clearMem == /\ i_mem' = 0
            /\ memberships_json' = Unbound
            /\ memResult' = None

clearEv == /\ i_regs' = 0
           /\ event_registrations_json' = Unbound
           /\ r' = 1
           /\ i_event' = 0
           /\ event_json' = Unbound
           /\ all_registrations' = << >>
           /\ evResult' = None

resetMem == memPc' = "none" /\ clearMem

resetEv == evPc' = "none" /\ clearEv

\* get_acct_membership_data raises: the TaskGroup cancels the other task
MembershipsRaises ==
    /\ memPc' = "raised"
    /\ evPc' = Cancelled(evPc)
    /\ IF evPc = "done"
       THEN UNCHANGED <<i_regs, event_registrations_json, r, i_event, event_json,
                        all_registrations, evResult, log>>
       ELSE clearEv /\ log' = Begun(Begun(log, "registrations"), "event")

\* get_acct_event_registrations raises: the TaskGroup cancels the other task
RegistrationsRaises ==
    /\ evPc' = "raised"
    /\ memPc' = Cancelled(memPc)
    /\ IF memPc = "done"
       THEN UNCHANGED <<i_mem, memberships_json, memResult, log>>
       ELSE clearMem /\ log' = Begun(log, "memberships")

----------------------------------------------------------------------------
(* get_acct_membership_data, run as a task *)

\* One iteration of the retry loop on /v2/accounts/{neon_id}/memberships: 200
\* decodes and breaks, 429/502 sleeps, any other status is printed; in both
\* non-200 cases the loop goes on.
MembershipsAttempt ==
    /\ memPc = "loop"
    /\ TasksMayRun
    /\ \E status \in Statuses :
        /\ log' = Logged("memberships", i_mem, status)
        /\ allOk' = (allOk /\ status = 200)
        /\ IF status = 200
           THEN /\ memberships_json' = List(MembershipsOf(neon_id))
                /\ i_mem' = i_mem
                /\ memPc' = "after"
           ELSE /\ memberships_json' = memberships_json
                /\ i_mem' = i_mem + 1
                /\ memPc' = IF LoopGoesOn(i_mem) THEN "loop" ELSE "after"
    /\ UNCHANGED <<dataVars, entry, mainPc, genVars, mainVars, err, acctVars, memResult, evVars,
                   discVars, histVars>>

\* NeonMembership(price=..., start_date=..., end_date=..., type=..., status=...)
NeonMembership(membership) ==
    [price |-> membership.fee,
     start_date |-> membership.termStartDate,
     end_date |-> membership.termEndDate,
     type |-> membership.termUnit,
     status |-> membership.status]

\* `if not memberships_json: return None`, then the list of NeonMembership in
\* the order of the response; reading memberships_json raises when no
\* iteration bound it, and the TaskGroup then cancels the other task.
MembershipsAfterLoop ==
    /\ memPc = "after"
    /\ TasksMayRun
    /\ IF memberships_json = Unbound
       THEN /\ MembershipsRaises
            /\ UNCHANGED <<memResult, i_mem>>
       ELSE /\ memPc' = "done"
            /\ memResult' = IF memberships_json.items = << >> THEN None
                            ELSE List([j \in 1..Len(memberships_json.items) |->
                                          NeonMembership(memberships_json.items[j])])
            /\ log' = Begun(log, "memberships")
            /\ i_mem' = 0
            /\ UNCHANGED evVars
    /\ UNCHANGED <<dataVars, entry, mainPc, genVars, mainVars, err, acctVars, memberships_json,
                   discVars, histVars, allOk>>

----------------------------------------------------------------------------
(* get_acct_event_registrations, run as a task *)

\* One iteration of the retry loop on /v2/accounts/{neon_id}/eventRegistrations:
\* 200 decodes and breaks, 429/502 sleeps and goes on, any other status
\* returns None.
RegistrationsAttempt ==
    /\ evPc = "loop"
    /\ TasksMayRun
    /\ \E status \in Statuses :
        /\ log' = Logged("registrations", i_regs, status)
        /\ allOk' = (allOk /\ status = 200)
        /\ IF status = 200
           THEN /\ event_registrations_json' = List(RegistrationsOf(neon_id))
                /\ evPc' = "after"
                /\ UNCHANGED <<i_regs, evResult>>
           ELSE IF status \in Transient
           THEN /\ i_regs' = i_regs + 1
                /\ evPc' = IF LoopGoesOn(i_regs) THEN "loop" ELSE "after"
                /\ UNCHANGED <<event_registrations_json, evResult>>
           ELSE /\ evResult' = None
                /\ evPc' = "done"
                /\ UNCHANGED <<i_regs, event_registrations_json>>
    /\ UNCHANGED <<dataVars, entry, mainPc, genVars, mainVars, err, acctVars, memVars, r, i_event,
                   event_json, all_registrations, discVars, histVars>>

\* `if not event_registrations_json: return None`, `all_registrations = []` and
\* the entry into the loop over the registrations
RegistrationsAfterLoop ==
    /\ evPc = "after"
    /\ TasksMayRun
    /\ IF event_registrations_json = Unbound
       THEN /\ RegistrationsRaises
            /\ UNCHANGED <<evResult, i_regs, i_event>>
       ELSE /\ IF event_registrations_json.items = << >>
               THEN evPc' = "done" /\ evResult' = None
               ELSE evPc' = "event_loop" /\ evResult' = evResult
            /\ log' = Begun(Begun(log, "registrations"), "event")
            /\ i_regs' = 0
            /\ i_event' = 0
            /\ UNCHANGED memVars
    /\ r' = 1
    /\ all_registrations' = << >>
    /\ UNCHANGED <<dataVars, entry, mainPc, genVars, mainVars, err, acctVars, event_registrations_json,
                   event_json, discVars, histVars, allOk>>

\* the registration of the iteration in progress
registration == event_registrations_json.items[r]

\* returning what was built so far instead of None
PartialRegistrations == List(all_registrations)

\* `print(event.status)`, `return None` in the nested retry loop
EventTerminalResult == None

\* One iteration of the nested retry loop on /v2/events/{event_id}: 200
\* decodes and breaks, 429/502 sleeps and goes on, any other status returns
\* None from get_acct_event_registrations.
EventAttempt ==
    /\ evPc = "event_loop"
    /\ TasksMayRun
    /\ \E status \in Statuses :
        /\ log' = Logged("event", i_event, status)
        /\ allOk' = (allOk /\ status = 200)
        /\ IF status = 200
           THEN /\ event_json' = EventBody(registration.eventId)
                /\ evPc' = "build"
                /\ UNCHANGED <<i_event, evResult>>
           ELSE IF status \in Transient
           THEN /\ i_event' = i_event + 1
                /\ evPc' = IF LoopGoesOn(i_event) THEN "event_loop" ELSE "build"
                /\ UNCHANGED <<event_json, evResult>>
           ELSE /\ evResult' = EventTerminalResult
                /\ evPc' = "done"
                /\ UNCHANGED <<i_event, event_json>>
    /\ UNCHANGED <<dataVars, entry, mainPc, genVars, mainVars, err, acctVars, memVars, i_regs,
                   event_registrations_json, r, all_registrations, discVars, histVars>>

\* the values of the members of NeonEventCategory
NeonEventCategoryValues ==
    {"Woodworking", "Woodshop Safety", "Metalworking", "Machining", "_3D Printing",
     "Laser Cutting", "Electronics", "Textiles", "CNC Router", "Miscellaneous",
     "Private", "Orientation", "Facility and Safety Tour", "Woodshop Mentor Series",
     "Tool Sharpening", "None"}

\* the member of NeonEventCategory with the given value
Member(value) == [tag |-> "NeonEventCategory", value |-> value]

\* the exception a failed enum lookup raises
ValueError == [tag |-> "ValueError"]

\* a lookup that answers the member NONE for a value that is not listed
NeonEventCategoryLenient(value) ==
    IF value \in NeonEventCategoryValues THEN Member(value) ELSE Member("None")

\* NeonEventCategory(value): the member whose value is `value`, ValueError
\* when there is none.
NeonEventCategory(value) ==
    IF value \in NeonEventCategoryValues THEN Member(value) ELSE ValueError

\* `event_category = "None"; if category := event_json["category"]:
\* event_category = category.get("name")`
event_category(detail) ==
    IF detail.category = None THEN "None" ELSE detail.category.name

\* The NeonEventRegistration of one raw registration and the event detail in
\* event_json: event_name is the part of the name before " w/", the category
\* is "None" when the event has none.
NeonEventRegistration(event, detail) ==
    [registration_date |-> event.registrationDateTime,
     event_id |-> event.eventId,
     registration_status |-> event.tickets[1].attendees[1].registrationStatus,
     event_type |-> [name |-> detail.name[1],
                     category |-> NeonEventCategory(event_category(detail))],
     event_date |-> detail.startDate,
     registration_amount |-> event.registrationAmount]

\* The rest of one iteration: build the registration from event_json and
\* append it; then the next iteration, or `return all_registrations`.
\* Reading event_json raises when no iteration of this call bound it.
BuildRegistration ==
    /\ evPc = "build"
    /\ TasksMayRun
    /\ IF \/ event_json = Unbound
          \/ NeonEventCategory(event_category(event_json)) = ValueError
       THEN /\ RegistrationsRaises
            /\ UNCHANGED <<all_registrations, r, evResult, i_event>>
       ELSE /\ all_registrations' =
                   Append(all_registrations, NeonEventRegistration(registration, event_json))
            /\ IF r < Len(event_registrations_json.items)
               THEN /\ r' = r + 1
                    /\ evPc' = "event_loop"
                    /\ evResult' = evResult
               ELSE /\ r' = r
                    /\ evPc' = "done"
                    /\ evResult' = List(all_registrations')
            /\ log' = Begun(log, "event")
            /\ i_event' = 0
            /\ UNCHANGED memVars
    /\ UNCHANGED <<dataVars, entry, mainPc, genVars, mainVars, err, acctVars, i_regs,
                   event_registrations_json, event_json, discVars, histVars, allOk>>


----------------------------------------------------------------------------
(* get_individual_account: the end of the TaskGroup, and main's use of acct *)

\* Both tasks are done: `return NeonAccount(..., memberships=memberships.result(),
\* event_registrations=event_registrations.result())`
AssembleAccount ==
    /\ acctPc = "join"
    /\ memPc = "done"
    /\ evPc = "done"
    /\ acct' = [tag |-> "NeonAccount",
                neon_id |-> neon_id,
                memberships |-> memResult,
                event_registrations |-> evResult]
    /\ acctPc' = "idle"
    /\ account_json' = Unbound
    /\ mainPc' = "record"
    /\ resetMem
    /\ resetEv
    /\ log' = [kind \in Kinds |-> Fresh]
    /\ UNCHANGED <<dataVars, entry, genVars, cur, accts, k, frames, err, i_acct, discVars, histVars,
                   allOk>>

\* A task raised: the TaskGroup raises an ExceptionGroup out of the
\* `async with`, get_individual_account and main do not catch it.
TaskGroupRaises ==
    /\ acctPc = "join"
    /\ "raised" \in {memPc, evPc}
    /\ acctPc' = "raised"
    /\ mainPc' = "raised"
    /\ err' = "ExceptionGroup"
    /\ UNCHANGED <<dataVars, entry, genVars, mainVars, i_acct, account_json, memVars, evVars,
                   discVars, log, histVars, allOk>>

\* main, from `member_df = pd.DataFrame.from_records([vars(acct)])` to
\* `frames.append(member_df)`: vars(None) raises TypeError.  A member_df is
\* represented by the neon_id of its row; acct is not read again before the
\* next iteration assigns it.
MainRecord ==
    /\ mainPc = "record"
    /\ IF acct = None
       THEN /\ mainPc' = "raised"
            /\ err' = "TypeError"
            /\ UNCHANGED <<frames, k, acct>>
       ELSE /\ frames' = Append(frames, acct.neon_id)
            /\ k' = k + 1
            /\ mainPc' = "acct_loop"
            /\ acct' = None
            /\ UNCHANGED err
    /\ UNCHANGED <<dataVars, entry, genVars, cur, accts, acctVars, memVars, evVars, discVars,
                   log, histVars, allOk>>

----------------------------------------------------------------------------
(* get_discourse_data *)

\* One iteration of the retry loop on /u/{discourse_id}.json: 200 decodes and
\* breaks, 429/502 sleeps and goes on, any other status returns None.
DiscourseAttempt ==
    /\ dPc = "loop"
    /\ \E status \in Statuses :
        /\ log' = Logged("discourse", i_disc, status)
        /\ allOk' = (allOk /\ status = 200)
        /\ IF status = 200
           THEN /\ data' = DiscourseBody
                /\ dPc' = "after"
                /\ UNCHANGED <<i_disc, dResult>>
           ELSE IF status \in Transient
           THEN /\ i_disc' = i_disc + 1
                /\ dPc' = IF LoopGoesOn(i_disc) THEN "loop" ELSE "after"
                /\ UNCHANGED <<data, dResult>>
           ELSE /\ dResult' = None
                /\ dPc' = "done"
                /\ UNCHANGED <<i_disc, data>>
    /\ UNCHANGED <<dataVars, entry, mainPc, genVars, mainVars, err, acctVars, memVars, evVars,
                   histVars>>

\* `posts = data.get("user")["post_count"]` ... `return discourse_info`
DiscourseAfterLoop ==
    /\ dPc = "after"
    /\ IF data = Unbound
       THEN /\ dPc' = "raised"
            /\ err' = "UnboundLocalError"
            /\ UNCHANGED dResult
       ELSE /\ dPc' = "done"
            /\ dResult' = [tag |-> "discourse_info", posts |-> data.post_count,
                           reading_time |-> data.time_read]
            /\ UNCHANGED err
    /\ UNCHANGED <<dataVars, entry, mainPc, genVars, mainVars, acctVars, memVars, evVars, i_disc,
                   data, log, histVars, allOk>>

----------------------------------------------------------------------------

Next ==
    \/ PageAttempt
    \/ PageYield
    \/ MainTakePage
    \/ MainBreak
    \/ NextPage
    \/ SkipAccount
    \/ CallAccount
    \/ AccountAttempt
    \/ AccountParse
    \/ CreateMembershipsTask
    \/ CreateRegistrationsTask
    \/ MembershipsAttempt
    \/ MembershipsAfterLoop
    \/ RegistrationsAttempt
    \/ RegistrationsAfterLoop
    \/ EventAttempt
    \/ BuildRegistration
    \/ AssembleAccount
    \/ TaskGroupRaises
    \/ MainRecord
    \/ DiscourseAttempt
    \/ DiscourseAfterLoop

Spec == Init /\ [][Next]_vars


----------------------------------------------------------------------------
(* One account's raw data as the service may return it.  The derivation of  *)
(* its record, its derived columns and its long-form rows is followed on a  *)
(* run in which every GET is answered with status 200.                      *)

\* most memberships, and most event registrations, of the account followed
MaxMemberships == 2
MaxRegistrations == 2

\* the sequences over S of length at most n
SeqsUpTo(S, n) == UNION {[1..m -> S] : m \in 0..n}

\* a raw membership: the fee and the length of the term go with the term unit
RawMembership(unit, status, start) ==
    [fee |-> IF unit = "YEAR" THEN 600 ELSE 75,
     termStartDate |-> start,
     termEndDate |-> IF unit = "YEAR" THEN start + 364 ELSE start + 30,
     termUnit |-> unit,
     status |-> status]

RawMemberships ==
    {RawMembership(unit, status, start) :
        unit \in {"MONTH", "YEAR"}, status \in {"SUCCEEDED", "CANCELED"}, start \in {1, 40}}

\* a raw registration: the registration date and the amount go with the event
RawRegistration(event_id, status) ==
    [eventId |-> event_id,
     registrationDateTime |-> CASE event_id = "e1" -> 20 [] event_id = "e2" -> 30
                                [] event_id = "e3" -> 25 [] OTHER -> 35,
     registrationAmount |-> CASE event_id = "e1" -> 50 [] event_id = "e2" -> 80
                              [] OTHER -> 20,
     tickets |-> <<[attendees |-> <<[registrationStatus |-> status]>>]>>]

RawRegistrations ==
    {RawRegistration(event_id, status) :
        event_id \in {"e1", "e2", "e3", "e4"}, status \in {"SUCCEEDED", "CANCELED"}}

\* one entry of accountCustomFields; optionValues lists the options it carries
CustomField(name, options) ==
    [name |-> name, value |-> "",
     optionValues |-> [j \in 1..Len(options) |-> [name |-> options[j]]]]

\* accountCustomFields: an unrelated field, then the family fields if any
RawCustomFields ==
    {<<[name |-> "DiscourseID", value |-> "7", optionValues |-> << >>]>> \o sub \o primary :
        sub \in {<< >>} \cup
                {<<CustomField("Family Group Sub Member", options)>> :
                    options \in {<< >>, <<"Yes">>, <<"No">>, <<"No", "Yes">>}},
        primary \in {<< >>} \cup
                    {<<CustomField("FamilyGroupPrimaryMember", options)>> :
                        options \in {<< >>, <<"Family Group Primary Member">>,
                                     <<"Former Primary Member">>}}}

RawAccount(fields, memberships, registrations) ==
    [accountId |-> 1, accountCustomFields |-> fields,
     current_membership_status |-> "Inactive",
     memberships |-> memberships, registrations |-> registrations]

\* The accounts followed: every order of the memberships, every order of the
\* registrations, and every combination of the family fields.
RawAccounts ==
    {RawAccount(<< >>, memberships, registrations) :
        memberships \in SeqsUpTo(RawMemberships, MaxMemberships),
        registrations \in {<< >>,
                           <<RawRegistration("e1", "SUCCEEDED")>>,
                           <<RawRegistration("e1", "SUCCEEDED"),
                             RawRegistration("e2", "SUCCEEDED")>>}}
    \cup
    {RawAccount(<< >>, memberships, registrations) :
        memberships \in {<< >>,
                         <<RawMembership("YEAR", "SUCCEEDED", 1)>>,
                         <<RawMembership("YEAR", "SUCCEEDED", 1),
                           RawMembership("MONTH", "SUCCEEDED", 40)>>},
        registrations \in SeqsUpTo(RawRegistrations, MaxRegistrations)}
    \cup
    {RawAccount(fields, <<RawMembership("MONTH", "SUCCEEDED", 1)>>, << >>) :
        fields \in RawCustomFields}

----------------------------------------------------------------------------
(* get_individual_account on that data *)

\* `custom_fields.get(name)` on the dict built from accountCustomFields: the
\* entry of the last field with that name, None when there is none
custom_fields_get(fields, name) ==
    LET hits == {j \in 1..Len(fields) : fields[j].name = name}
    IN IF hits = {} THEN None
       ELSE LET j == CHOOSE h \in hits : \A g \in hits : g <= h
            IN [value |-> fields[j].value, optionValues |-> fields[j].optionValues]

\* `for i in field[1]: if i.get("name") == option`
HasOption(field, option) ==
    \E j \in 1..Len(field.optionValues) : field.optionValues[j].name = option

\* a flag that only looks at the sub-member field
family_membership_sub_only(fields) ==
    LET sub == custom_fields_get(fields, "Family Group Sub Member")
    IN sub # None /\ HasOption(sub, "Yes")

\* family_membership as get_individual_account computes it
family_membership_of(fields) ==
    LET sub == custom_fields_get(fields, "Family Group Sub Member")
        primary == custom_fields_get(fields, "FamilyGroupPrimaryMember")
    IN IF sub # None /\ HasOption(sub, "Yes") THEN TRUE
       ELSE primary # None /\ HasOption(primary, "Family Group Primary Member")

\* get_acct_membership_data after a 200: None for an empty list, else the
\* NeonMembership of every raw membership in the order of the response
MembershipsResult(items) ==
    IF items = << >> THEN None
    ELSE List([j \in 1..Len(items) |-> NeonMembership(items[j])])

\* get_acct_event_registrations with every GET answered 200: None for an empty
\* list; ValueError when a category lookup raises; else the
\* NeonEventRegistration of every raw registration in the order of the response
RegistrationsResult(items) ==
    IF items = << >> THEN None
    ELSE IF \E j \in 1..Len(items) :
                NeonEventCategory(event_category(EventBody(items[j].eventId))) = ValueError
    THEN ValueError
    ELSE List([j \in 1..Len(items) |->
                  NeonEventRegistration(items[j], EventBody(items[j].eventId))])

----------------------------------------------------------------------------
(* NeonAccount: the derived properties *)

\* `if self.memberships:` and `if not self.event_registrations:`
Truthy(list) == list # None /\ list.items # << >>

\* the items of a list attribute, none when it is None
Items(list) == IF Truthy(list) THEN list.items ELSE << >>

\* a count that adds 12 or 1 for every membership whatever its status
membership_count_any_status(self) ==
    SumSeq([j \in 1..Len(Items(self.memberships)) |->
               IF Items(self.memberships)[j].type = "YEAR" THEN 12 ELSE 1])

membership_count(self) ==
    IF Truthy(self.memberships)
    THEN SumSeq([j \in 1..Len(self.memberships.items) |->
                    LET m == self.memberships.items[j]
                    IN IF m.type = "YEAR" /\ m.status = "SUCCEEDED" THEN 12
                       ELSE IF m.type = "MONTH" /\ m.status = "SUCCEEDED" THEN 1
                       ELSE 0])
    ELSE 0

event_registration_count(self) ==
    IF ~Truthy(self.event_registrations) THEN 0 ELSE Len(self.event_registrations.items)

\* a count of the registrations whatever their status
event_attended_count_any_status(self) == Len(Items(self.event_registrations))

event_attended_count(self) ==
    IF ~Truthy(self.event_registrations) THEN 0
    ELSE Cardinality({j \in 1..Len(self.event_registrations.items) :
                         self.event_registrations.items[j].registration_status = "SUCCEEDED"})

\* a sum over the records whatever their status
total_dollars_spent_any_status(self) ==
    SumSeq([j \in 1..Len(Items(self.memberships)) |-> Items(self.memberships)[j].price])
    + SumSeq([j \in 1..Len(Items(self.event_registrations)) |->
                 Items(self.event_registrations)[j].registration_amount])

total_dollars_spent(self) ==
    LET mem_sum ==
            IF Truthy(self.memberships)
            THEN SumSeq([j \in 1..Len(self.memberships.items) |->
                            LET m == self.memberships.items[j]
                            IN IF m.status = "SUCCEEDED" THEN m.price ELSE 0])
            ELSE 0
        event_sum ==
            IF Truthy(self.event_registrations)
            THEN SumSeq([j \in 1..Len(self.event_registrations.items) |->
                            LET reg == self.event_registrations.items[j]
                            IN IF reg.registration_status = "SUCCEEDED"
                               THEN reg.registration_amount ELSE 0])
            ELSE 0
    IN mem_sum + event_sum

\* an absent date
NoDate == -1

first_membership_start_date(self) ==
    IF Truthy(self.memberships) THEN self.memberships.items[1].start_date ELSE NoDate

latest_membership_end_date(self) ==
    IF Truthy(self.memberships)
    THEN self.memberships.items[Len(self.memberships.items)].end_date
    ELSE NoDate

\* an evaluation of the properties that sorts self.memberships in place,
\* latest start date first
SelfAfterSortingProperties(self) ==
    IF ~Truthy(self.memberships) \/ Len(self.memberships.items) < 2 THEN self
    ELSE LET items == self.memberships.items
         IN IF items[1].start_date < items[2].start_date
            THEN [self EXCEPT !.memberships =
                     List([j \in 1..Len(items) |->
                              IF j = 1 THEN items[2] ELSE IF j = 2 THEN items[1]
                              ELSE items[j]])]
            ELSE self

\* self after its properties were evaluated: none of them assigns to self or
\* changes one of its lists
SelfAfterProperties(self) == self

----------------------------------------------------------------------------
(* helpers.neon_dataclasses.NeonAccount: the period functions the long-form *)
(* drivers call                                                             *)

CategoryMembers == {Member(value) : value \in NeonEventCategoryValues}

\* a count whose upper bound is exclusive
classes_by_category_before_end(self, start, end) ==
    LET regs == Items(self.event_registrations)
    IN [category \in CategoryMembers |->
           Cardinality({j \in 1..Len(regs) :
                           /\ regs[j].registration_status = "SUCCEEDED"
                           /\ regs[j].event_type.category = category
                           /\ start <= regs[j].event_date
                           /\ regs[j].event_date < end})]

\* classes_by_category_in_period(start, end): per category, the succeeded
\* registrations of that category whose event date is in [start, end]; a
\* category without any counts 0, as in a Counter
classes_by_category_in_period(self, start, end) ==
    LET regs == Items(self.event_registrations)
    IN [category \in CategoryMembers |->
           Cardinality({j \in 1..Len(regs) :
                           /\ regs[j].registration_status = "SUCCEEDED"
                           /\ regs[j].event_type.category = category
                           /\ start <= regs[j].event_date
                           /\ regs[j].event_date <= end})]

\* the 1-based place of membership j among the memberships at positions P in
\* chronological order: by start date, then by position in the list
PlaceIn(memberships, P, j) ==
    Cardinality({h \in P : \/ memberships[h].start_date < memberships[j].start_date
                           \/ /\ memberships[h].start_date = memberships[j].start_date
                              /\ h <= j})

\* get_membership_periods(): per membership type, the memberships of that type
\* under the interval indices 1..k in chronological order; empty for both
\* types when there is no membership
get_membership_periods(self) ==
    LET memberships == Items(self.memberships)
    IN [type \in {"YEAR", "MONTH"} |->
           LET P == {j \in 1..Len(memberships) : memberships[j].type = type}
           IN [interval \in 1..Cardinality(P) |->
                  memberships[CHOOSE j \in P : PlaceIn(memberships, P, j) = interval]]]

----------------------------------------------------------------------------
(* The long-form driver: one row per membership period *)

RECURSIVE SumOver(_, _)
\* Counter.total()
SumOver(counter, keys) ==
    IF keys = {} THEN 0
    ELSE LET key == CHOOSE x \in keys : TRUE
         IN counter[key] + SumOver(counter, keys \ {key})

\* a start column equal to the interval index
interval_start_same(interval) == interval

\* `df_params.loc[0, "start"] = interval - 1`
interval_start(interval) == interval - 1

\* the row add_row appends for `membership` under the index `interval`
Row(self, interval, membership) ==
    LET class_counter ==
            classes_by_category_in_period(self, membership.start_date, membership.end_date)
    IN [start |-> interval_start(interval),
        stop |-> interval,
        membership_type |-> membership.type,
        start_date |-> membership.start_date,
        end_date |-> membership.end_date,
        num_classes_attended |-> SumOver(class_counter, DOMAIN class_counter),
        woodshop_classes |-> class_counter[Member("Woodworking")]
                             + class_counter[Member("Woodshop Safety")]
                             + class_counter[Member("CNC Router")],
        metal_shop_classes |-> class_counter[Member("Metalworking")]
                               + class_counter[Member("Machining")],
        lasers_classes |-> class_counter[Member("Laser Cutting")],
        membership_cancelled |-> FALSE]

\* the <<interval, membership>> pairs in the order main visits them: the
\* annual periods, then the monthly ones
PeriodsVisited(self) ==
    LET mem_intervals == get_membership_periods(self)
        annuals == mem_intervals["YEAR"]
        monthlies == mem_intervals["MONTH"]
    IN [j \in 1..Len(annuals) |-> <<j, annuals[j]>>]
       \o [j \in 1..Len(monthlies) |-> <<j, monthlies[j]>>]

----------------------------------------------------------------------------
(* The derivation of one account, step by step.  entry "account" follows    *)
(* main of Archived/get_all_neon_member_data.py on the account, entry       *)
(* "long_form" follows main of get_asmbly_member_data_long_form.py on the   *)
(* record get_individual_account returns for it.                            *)

\* what the derivation of one account does not touch
fetchVars == <<mainPc, genVars, cur, accts, k, frames, acctVars, memPc, i_mem,
               memberships_json, evPc, i_regs, event_registrations_json, r, i_event,
               event_json, all_registrations, discVars, log, histVars, allOk>>

InitAccount ==
    /\ entry \in {"account", "long_form"}
    /\ raw \in RawAccounts
    /\ dpc = "custom_fields"
    /\ family_membership = FALSE
    /\ member_df = None
    /\ row_list = << >>
    /\ mainPc = "off"
    /\ page = 0
    /\ i_page = 0
    /\ accounts_json = Unbound
    /\ cur = None
    /\ accts = << >>
    /\ k = 1
    /\ acct = None
    /\ frames = << >>
    /\ err = ""
    /\ acctPc = "idle"
    /\ i_acct = 0
    /\ account_json = Unbound
    /\ memPc = "none"
    /\ i_mem = 0
    /\ memberships_json = Unbound
    /\ memResult = None
    /\ evPc = "none"
    /\ i_regs = 0
    /\ event_registrations_json = Unbound
    /\ r = 1
    /\ i_event = 0
    /\ event_json = Unbound
    /\ all_registrations = << >>
    /\ evResult = None
    /\ dPc = "off"
    /\ i_disc = 0
    /\ data = Unbound
    /\ dResult = None
    /\ log = [kind \in Kinds |-> Fresh]
    /\ yielded = << >>
    /\ processed = << >>
    /\ allOk = TRUE

\* get_individual_account, from `custom_fields = {...}` to the family flag
ParseCustomFields ==
    /\ dpc = "custom_fields"
    /\ family_membership' = family_membership_of(raw.accountCustomFields)
    /\ dpc' = "memberships"
    /\ UNCHANGED <<entry, acct, err, memResult, evResult, raw, member_df, row_list,
                   fetchVars>>

\* the task get_acct_membership_data, its GET answered 200
GetMembershipData ==
    /\ dpc = "memberships"
    /\ memResult' = MembershipsResult(raw.memberships)
    /\ dpc' = "registrations"
    /\ UNCHANGED <<entry, acct, err, evResult, raw, family_membership, member_df,
                   row_list, fetchVars>>

\* the task get_acct_event_registrations, its GETs answered 200: an exception
\* of the task leaves the TaskGroup as an ExceptionGroup
GetEventRegistrations ==
    /\ dpc = "registrations"
    /\ IF RegistrationsResult(raw.registrations) = ValueError
       THEN /\ err' = "ExceptionGroup"
            /\ dpc' = "raised"
            /\ UNCHANGED evResult
       ELSE /\ evResult' = RegistrationsResult(raw.registrations)
            /\ dpc' = "return"
            /\ UNCHANGED err
    /\ UNCHANGED <<entry, acct, memResult, raw, family_membership, member_df, row_list,
                   fetchVars>>

\* `return NeonAccount(...)`, received by the driver
ReturnAccount ==
    /\ dpc = "return"
    /\ acct' = [tag |-> "NeonAccount",
                neon_id |-> raw.accountId,
                family_membership |-> family_membership,
                memberships |-> memResult,
                event_registrations |-> evResult]
    /\ dpc' = IF entry = "account" THEN "columns" ELSE "rows"
    /\ UNCHANGED <<entry, err, memResult, evResult, raw, family_membership, member_df,
                   row_list, fetchVars>>

\* main of the archived driver: the derived columns of member_df
DeriveColumns ==
    /\ dpc = "columns"
    /\ member_df' = [membership_count |-> membership_count(acct),
                     first_membership_start |-> first_membership_start_date(acct),
                     last_membership_end |-> latest_membership_end_date(acct),
                     event_registration_count |-> event_registration_count(acct),
                     event_attended_count |-> event_attended_count(acct),
                     total_dollars_spent |-> total_dollars_spent(acct)]
    /\ acct' = SelfAfterProperties(acct)
    /\ dpc' = "done"
    /\ UNCHANGED <<entry, err, memResult, evResult, raw, family_membership, row_list,
                   fetchVars>>

\* main of the long-form driver: one add_row of the loops over
\* mem_intervals; row_list holds a row for each pair visited so far
AddRow ==
    /\ dpc = "rows"
    /\ Len(row_list) < Len(PeriodsVisited(acct))
    /\ LET visited == PeriodsVisited(acct)[Len(row_list) + 1]
       IN row_list' = Append(row_list, Row(acct, visited[1], visited[2]))
    /\ UNCHANGED <<entry, acct, err, memResult, evResult, raw, dpc, family_membership,
                   member_df, fetchVars>>

\* main of the long-form driver after the loops: `pd.concat(row_list)` raises
\* ValueError for an empty list; else the rows that end on the end date of the
\* last membership of the list take the account's cancelled flag
ConcatRows ==
    /\ dpc = "rows"
    /\ Len(row_list) = Len(PeriodsVisited(acct))
    /\ IF row_list = << >>
       THEN /\ err' = "ValueError"
            /\ dpc' = "raised"
            /\ UNCHANGED member_df
       ELSE /\ LET last_mem_date == acct.memberships.items[Len(acct.memberships.items)].end_date
                   cancelled == raw.current_membership_status = "Inactive"
               IN member_df' =
                      List([j \in 1..Len(row_list) |->
                               IF row_list[j].end_date = last_mem_date
                               THEN [row_list[j] EXCEPT !.membership_cancelled = cancelled]
                               ELSE row_list[j]])
            /\ dpc' = "done"
            /\ UNCHANGED err
    /\ UNCHANGED <<entry, acct, memResult, evResult, raw, family_membership, row_list,
                   fetchVars>>

NextAccount ==
    \/ ParseCustomFields
    \/ GetMembershipData
    \/ GetEventRegistrations
    \/ ReturnAccount
    \/ DeriveColumns
    \/ AddRow
    \/ ConcatRows

SpecAccount == InitAccount /\ [][NextAccount]_vars


----------------------------------------------------------------------------
(* Properties *)

\* every response of the logical fetch so far was transient
AllTransient(kind) == log[kind].gets > 0 /\ Len(log[kind].sleeps) = log[kind].gets

\* the retry loop of the fetch is still running
InLoop(kind) ==
    CASE kind = "page" -> mainPc = "page_loop"
      [] kind = "account" -> acctPc = "loop"
      [] kind = "memberships" -> memPc = "loop"
      [] kind = "registrations" -> evPc = "loop"
      [] kind = "event" -> evPc = "event_loop"
      [] kind = "discourse" -> dPc = "loop"

\* the function running the fetch has raised
Raised(kind) ==
    CASE kind = "page" -> mainPc = "raised" /\ err = "UnboundLocalError" /\ acctPc # "raised"
      [] kind = "account" -> acctPc = "raised" /\ err = "UnboundLocalError"
      [] kind = "memberships" -> memPc = "raised"
      [] kind = "registrations" -> evPc = "raised"
      [] kind = "event" -> evPc = "raised"
      [] kind = "discourse" -> dPc = "raised"

SingleResourceKinds == {"account", "memberships", "registrations", "event"}

\* C1: a logical fetch (one page index, one account detail, one membership
\* list, one registration list, one event detail, one forum user) issues at
\* most 10 GETs, and its n-th GET is issued in loop iteration n - 1: the
\* attempt counter starts at 0 for every page and every resource.
C1_AttemptsBounded ==
    \A kind \in Kinds :
        /\ log[kind].gets <= 10
        /\ log[kind].gets > 0 => log[kind].idx = log[kind].gets - 1

\* a page after the first has been requested 10 times
C1_FullBudgetOnLaterPage == page >= 1 /\ log["page"].gets = 10

\* C2: while every response of a fetch is transient, the sleep after attempt i
\* is 200 * 2^i ms, each twice the one before; and when the retry loop of such
\* a fetch has ended, it has made exactly 10 attempts and slept
\* 200 * (2^10 - 1) ms in total.
C2_ExponentialBackoff ==
    \A kind \in Kinds :
        AllTransient(kind) =>
            LET sleeps == log[kind].sleeps IN
            /\ \A j \in 1..Len(sleeps) : sleeps[j] = 200 * 2 ^ (j - 1)
            /\ \A j \in 2..Len(sleeps) : sleeps[j] = 2 * sleeps[j - 1]
            /\ ~InLoop(kind) => /\ log[kind].gets = 10
                                /\ SumSeq(sleeps) = 200 * (2 ^ 10 - 1)

\* the page fetch has ended after transient responses only
C2_PageRetriesExhausted == AllTransient("page") /\ mainPc = "yield"

\* C3: once the GET of a page index was answered with a status that is
\* neither 200 nor 429/502, no further GET is issued for that page index and
\* no page is delivered to main for it.
C3_TerminalStatusAbortsPage ==
    [][(log["page"].terminal /\ page' = page) =>
          (log'["page"].gets <= log["page"].gets /\ mainPc' # "check")]_vars

\* C4: as long as every request has succeeded, main takes the pages
\* 0, 1, ... in ascending order, at most totalPages of them and exactly
\* totalPages when it returns, and no page index beyond totalPages is
\* requested.
C4_ExactlyTotalPages ==
    allOk =>
        /\ \A j \in 1..Len(processed) : processed[j] = j - 1
        /\ Len(processed) <= TotalPages
        /\ page <= TotalPages
        /\ mainPc = "done" => Len(processed) = TotalPages

\* main has returned after a run in which every request succeeded
C4_AllPagesTaken == allOk /\ mainPc = "done" /\ Len(processed) = TotalPages

\* C5: once a single-resource fetch has received a status that is neither
\* 200 nor 429/502, it issues no further GET for that resource.
C5_TerminalStatusNotRetried ==
    [][\A kind \in SingleResourceKinds :
          log[kind].terminal => log'[kind].gets <= log[kind].gets]_vars

\* C6: a fetch of a single resource (or of the forum user) whose 10 attempts
\* were all answered 429/502 does not raise.
C6_ExhaustionReturnsNone ==
    \A kind \in SingleResourceKinds \cup {"discourse"} :
        (AllTransient(kind) /\ log[kind].gets = 10) => ~Raised(kind)

\* C7: when get_individual_account has returned None, main appends no record
\* for the account, raises nothing and goes on with the next account.
C7_UnavailableAccountSkipped ==
    [][(mainPc = "record" /\ acct = None) =>
          (mainPc' = "acct_loop" /\ k' = k + 1 /\ frames' = frames /\ err' = "")]_vars

\* C8: each of the two sub-fetches ends with a result, a list or None, and
\* never by raising or by being cancelled, so that the Account is assembled
\* with whatever the other sub-fetch obtained.
C8_SubFetchFailureIsolated ==
    /\ memPc \notin {"raised", "cancelled"}
    /\ evPc \notin {"raised", "cancelled"}

\* C9: a GET of a sub-fetch (memberships, registrations, event detail) is
\* issued only when both tasks have been created, and the Account is
\* assembled only when both tasks are done.
C9_StartBothJoinBoth ==
    [][/\ (\E kind \in {"memberships", "registrations", "event"} :
              log'[kind].gets > log[kind].gets) => (memPc # "none" /\ evPc # "none")
       /\ (acct' # acct /\ acct' # None) => (memPc = "done" /\ evPc = "done")]_vars

\* both tasks are in flight, each having issued GETs
C9_Interleaved ==
    /\ acctPc = "join"
    /\ memPc = "loop" /\ log["memberships"].gets >= 1
    /\ evPc = "event_loop" /\ log["event"].gets >= 1

\* C10 as stated: after a terminal failure of one event-detail fetch, the
\* registrations already enriched are in the list the function returns.
C10_TerminalEventKeepsOthers ==
    (evPc = "done" /\ log["event"].terminal /\ all_registrations # << >>) =>
        evResult = List(all_registrations)

\* C10 as amended: a terminal failure of one event-detail fetch makes
\* get_acct_event_registrations return None, whatever was enriched before.
C10_TerminalEventReturnsNone ==
    (evPc = "done" /\ log["event"].terminal) => evResult = None

\* the second event-detail fetch failed terminally after the first succeeded
C10_SecondEventFailed ==
    evPc = "done" /\ log["event"].terminal /\ Len(all_registrations) = 1 /\ evResult = None

----------------------------------------------------------------------------
(* Properties of the account record and of the values derived from it *)

\* C11 as stated: whatever the order in which the service returns the raw
\* records, the assembled account has its memberships ascending by start date
\* and its event registrations ascending by registration date.
C11_ListsSorted ==
    acct # None =>
        /\ \A i, j \in 1..Len(Items(acct.memberships)) :
               i < j => Items(acct.memberships)[i].start_date
                            <= Items(acct.memberships)[j].start_date
        /\ \A i, j \in 1..Len(Items(acct.event_registrations)) :
               i < j => Items(acct.event_registrations)[i].registration_date
                            <= Items(acct.event_registrations)[j].registration_date

\* the archived driver has derived the columns of the account
ColumnsDerived == entry = "account" /\ dpc = "done"

\* the raw memberships with the given term unit and status
RawWith(unit, status) ==
    {j \in 1..Len(raw.memberships) :
        raw.memberships[j].termUnit = unit /\ raw.memberships[j].status = status}

\* C12: membership_count is 12 for each succeeded annual membership plus 1 for
\* each succeeded monthly membership; a membership of any other status adds 0.
C12_MembershipCount ==
    ColumnsDerived =>
        member_df.membership_count =
            12 * Cardinality(RawWith("YEAR", "SUCCEEDED"))
            + Cardinality(RawWith("MONTH", "SUCCEEDED"))

\* one succeeded annual membership next to a canceled annual one counts 12
C12_AnnualAndCanceled ==
    /\ ColumnsDerived
    /\ Cardinality(RawWith("YEAR", "SUCCEEDED")) = 1
    /\ Cardinality(RawWith("YEAR", "CANCELED")) = 1
    /\ member_df.membership_count = 12

\* the fees of the succeeded raw memberships, one entry per membership
SucceededFees ==
    [j \in 1..Len(raw.memberships) |->
        IF raw.memberships[j].status = "SUCCEEDED" THEN raw.memberships[j].fee ELSE 0]

\* the status the service reports for raw registration j
RawRegistrationStatus(j) == raw.registrations[j].tickets[1].attendees[1].registrationStatus

\* the amounts of the succeeded raw registrations, one entry per registration
SucceededAmounts ==
    [j \in 1..Len(raw.registrations) |->
        IF RawRegistrationStatus(j) = "SUCCEEDED"
        THEN raw.registrations[j].registrationAmount ELSE 0]

\* C13: total_dollars_spent is the sum of the prices of the succeeded
\* memberships plus the sum of the amounts of the succeeded registrations;
\* other records add nothing and an absent list adds 0.
C13_TotalDollarsSpent ==
    ColumnsDerived =>
        /\ member_df.total_dollars_spent = SumSeq(SucceededFees) + SumSeq(SucceededAmounts)
        /\ acct.memberships = None =>
               member_df.total_dollars_spent = SumSeq(SucceededAmounts)
        /\ acct.event_registrations = None =>
               member_df.total_dollars_spent = SumSeq(SucceededFees)

\* a succeeded membership priced 600 and a succeeded registration priced 50,
\* next to a canceled registration, give 650
C13_SixHundredFifty ==
    /\ ColumnsDerived
    /\ Len(raw.memberships) = 1 /\ SucceededFees = <<600>>
    /\ Len(raw.registrations) = 2 /\ SucceededAmounts = <<50, 0>>
    /\ member_df.total_dollars_spent = 650

\* C14: event_registration_count is the number of registrations of the
\* account, event_attended_count the number of those with status succeeded,
\* hence never more; both are 0 when the list is absent or empty.
C14_EventCounts ==
    ColumnsDerived =>
        /\ member_df.event_registration_count = Len(raw.registrations)
        /\ member_df.event_attended_count =
               Cardinality({j \in 1..Len(raw.registrations) :
                               RawRegistrationStatus(j) = "SUCCEEDED"})
        /\ member_df.event_attended_count <= member_df.event_registration_count
        /\ ~Truthy(acct.event_registrations) =>
               /\ member_df.event_registration_count = 0
               /\ member_df.event_attended_count = 0

\* two registrations of which one succeeded
C14_OneOfTwoAttended ==
    /\ ColumnsDerived
    /\ member_df.event_registration_count = 2
    /\ member_df.event_attended_count = 1

\* the succeeded raw registrations whose event is dated within [start, end]
AttendedWithin(start, end) ==
    {j \in 1..Len(raw.registrations) :
        /\ RawRegistrationStatus(j) = "SUCCEEDED"
        /\ start <= EventBody(raw.registrations[j].eventId).startDate
        /\ EventBody(raw.registrations[j].eventId).startDate <= end}

\* those of them whose event has the category named `name`
AttendedWithinOf(start, end, name) ==
    {j \in AttendedWithin(start, end) :
        event_category(EventBody(raw.registrations[j].eventId)) = name}

\* day numbers at and next to the event dates
Days == {39, 40, 70, 71, 400}

\* C15: classes_by_category_in_period(start, end) gives, per category, the
\* number of succeeded registrations of that category whose event date d has
\* start <= d <= end; every other registration is counted nowhere.  The same
\* holds of the class columns of every long-form row, whose bounds are the
\* start and end date of the row's membership.
C15_ClassesByCategoryInPeriod ==
    /\ (dpc = "rows" /\ row_list = << >>) =>
           \A start \in Days, end \in Days :
               LET class_counter == classes_by_category_in_period(acct, start, end)
               IN /\ \A name \in NeonEventCategoryValues :
                         class_counter[Member(name)] =
                             Cardinality(AttendedWithinOf(start, end, name))
                  /\ SumOver(class_counter, DOMAIN class_counter) =
                         Cardinality(AttendedWithin(start, end))
    /\ \A j \in 1..Len(row_list) :
           LET row == row_list[j]
           IN /\ row.num_classes_attended =
                     Cardinality(AttendedWithin(row.start_date, row.end_date))
              /\ row.lasers_classes =
                     Cardinality(AttendedWithinOf(row.start_date, row.end_date,
                                                  "Laser Cutting"))
              /\ row.metal_shop_classes =
                     Cardinality(AttendedWithinOf(row.start_date, row.end_date,
                                                  "Metalworking"))
              /\ row.woodshop_classes = 0

\* a row of a monthly membership from day 40 to day 70 counts the class of
\* day 40 and the class of day 70, while the row of a membership from day 1
\* to day 31 counts none of them
C15_BothBoundsInclusive ==
    /\ Len(row_list) = 2
    /\ \E j \in 1..2 :
           /\ row_list[j].start_date = 40 /\ row_list[j].end_date = 70
           /\ row_list[j].num_classes_attended = 2
           /\ row_list[j].lasers_classes = 1
           /\ row_list[j].metal_shop_classes = 1
    /\ \E j \in 1..2 :
           /\ row_list[j].start_date = 1 /\ row_list[j].end_date = 31
           /\ row_list[j].num_classes_attended = 0

\* the class columns of a long-form row
ClassColumns(row) ==
    <<row.num_classes_attended, row.woodshop_classes, row.metal_shop_classes,
      row.lasers_classes>>

AllRowsBuilt ==
    entry = "long_form" /\ dpc \in {"rows", "done"} /\ Len(row_list) = Len(raw.memberships)

\* the rows built for memberships of the given type
RowsOfType(type) == {j \in 1..Len(row_list) : row_list[j].membership_type = type}

\* C17: get_membership_periods() puts every membership under exactly one type
\* and one interval index, the indices of a type being 1, 2, ... in chronological
\* order without gap or repeat; the row built for index i has start = i - 1
\* and stop = i.
C17_MembershipPeriods ==
    /\ \A j \in 1..Len(row_list) :
           row_list[j].start = row_list[j].stop - 1 /\ row_list[j].stop >= 1
    /\ AllRowsBuilt =>
           /\ \A type \in {"MONTH", "YEAR"} :
                  LET count == Cardinality({j \in 1..Len(raw.memberships) :
                                               raw.memberships[j].termUnit = type})
                  IN /\ Cardinality(RowsOfType(type)) = count
                     /\ {row_list[j].stop : j \in RowsOfType(type)} = 1..count
                     /\ \A i, j \in RowsOfType(type) :
                            row_list[i].stop < row_list[j].stop =>
                                row_list[i].start_date <= row_list[j].start_date
           /\ \A type \in {"MONTH", "YEAR"}, day \in {1, 40} :
                  Cardinality({j \in RowsOfType(type) : row_list[j].start_date = day}) =
                      Cardinality({j \in 1..Len(raw.memberships) :
                                      /\ raw.memberships[j].termUnit = type
                                      /\ raw.memberships[j].termStartDate = day})

\* two monthly memberships returned latest first: the one of day 1 is
\* interval [0, 1], the one of day 40 is interval [1, 2]
C17_TwoMonthliesOutOfOrder ==
    /\ AllRowsBuilt
    /\ Len(raw.memberships) = 2
    /\ raw.memberships[1].termStartDate = 40 /\ raw.memberships[2].termStartDate = 1
    /\ \E i, j \in 1..2 :
           /\ row_list[i].membership_type = "MONTH" /\ row_list[j].membership_type = "MONTH"
           /\ row_list[i].start_date = 1 /\ row_list[i].start = 0 /\ row_list[i].stop = 1
           /\ row_list[j].start_date = 40 /\ row_list[j].start = 1 /\ row_list[j].stop = 2

\* C18 as stated: an account without memberships never causes an error: its
\* membership count is 0, its first and latest membership dates are absent,
\* its total excludes membership fees, get_membership_periods() is empty for
\* both types, and the drivers finish the account without raising; an account
\* without registrations has zero class counts.
C18_NoMembershipsNeverRaises ==
    /\ (raw # None /\ raw.memberships = << >>) =>
           /\ err # "ValueError"
           /\ ColumnsDerived =>
                  /\ member_df.membership_count = 0
                  /\ member_df.first_membership_start = NoDate
                  /\ member_df.last_membership_end = NoDate
                  /\ member_df.total_dollars_spent = SumSeq(SucceededAmounts)
           /\ acct # None =>
                  \A type \in {"MONTH", "YEAR"} : get_membership_periods(acct)[type] = << >>
    /\ (raw # None /\ raw.registrations = << >>) =>
           /\ \A j \in 1..Len(row_list) : row_list[j].num_classes_attended = 0
           /\ ColumnsDerived => member_df.event_attended_count = 0

\* the account has a custom field with that name
FieldPresent(name) ==
    \E j \in 1..Len(raw.accountCustomFields) : raw.accountCustomFields[j].name = name

\* the account has a custom field with that name carrying that option
FieldCarries(name, option) ==
    \E j \in 1..Len(raw.accountCustomFields) :
        /\ raw.accountCustomFields[j].name = name
        /\ \E h \in 1..Len(raw.accountCustomFields[j].optionValues) :
               raw.accountCustomFields[j].optionValues[h].name = option

\* the family flag of the account has been computed
FlagComputed == raw # None /\ dpc # "custom_fields"

\* C19 as stated: the family flag is true exactly when the sub-member field
\* is set to "Yes" or the primary-member field is present on the account.
C19_FlagWhenPrimaryPresent ==
    FlagComputed =>
        /\ family_membership =
               (\/ FieldCarries("Family Group Sub Member", "Yes")
                \/ FieldPresent("FamilyGroupPrimaryMember"))
        /\ acct # None => acct.family_membership = family_membership

\* C19 as amended: the family flag is true exactly when the sub-member field
\* carries the option "Yes" or the primary-member field carries the option
\* "Family Group Primary Member"; the presence of the primary-member field
\* alone does not set it.
C19_FlagWhenPrimaryOptionSet ==
    FlagComputed =>
        /\ family_membership =
               (\/ FieldCarries("Family Group Sub Member", "Yes")
                \/ FieldCarries("FamilyGroupPrimaryMember", "Family Group Primary Member"))
        /\ acct # None => acct.family_membership = family_membership

\* an assembled account whose primary-member field is present with another
\* option and whose sub-member field says "No": the flag is false
C19_PrimaryPresentFlagFalse ==
    /\ acct # None
    /\ FieldCarries("Family Group Sub Member", "No")
    /\ ~FieldCarries("Family Group Sub Member", "Yes")
    /\ FieldCarries("FamilyGroupPrimaryMember", "Former Primary Member")
    /\ ~acct.family_membership

\* C20 as stated: a registration whose event has a category name outside the
\* enumeration is built with the category NONE and nothing is raised; so is a
\* registration whose event has no category.
C20_UnknownCategoryIsNone ==
    raw # None =>
        /\ err # "ExceptionGroup"
        /\ (acct # None /\ Truthy(acct.event_registrations)) =>
               \A j \in 1..Len(acct.event_registrations.items) :
                   acct.event_registrations.items[j].event_type.category =
                       NeonEventCategoryLenient(
                           event_category(EventBody(raw.registrations[j].eventId)))

----------------------------------------------------------------------------
(* Properties of the batch run as a whole *)

\* the fetches made on behalf of one account
AccountKinds == {"account", "memberships", "registrations", "event"}

\* C21: accounts are processed one after the other.  A GET for an account
\* (detail, memberships, registrations, event detail) is issued only while
\* main awaits the aggregation of the account at position k; main moves to
\* another account only when no aggregation or task is in progress; and a page
\* is requested only when every account of the current page has been gone
\* through.
C21_AccountsSequential ==
    [][/\ (\E kind \in AccountKinds : log'[kind].gets > log[kind].gets) =>
              /\ mainPc = "await_acct"
              /\ k <= Len(accts)
              /\ k' = k /\ accts' = accts
       /\ (k' # k \/ accts' # accts) =>
              acctPc = "idle" /\ memPc = "none" /\ evPc = "none"
       /\ (log'["page"].gets > log["page"].gets) =>
              /\ k > Len(accts)
              /\ acctPc = "idle" /\ memPc = "none" /\ evPc = "none"]_vars

\* account 1 of page 0 has been recorded and the detail of account 2, of page
\* 1, is being fetched
C21_SecondAccountAfterFirst ==
    /\ frames = <<1>>
    /\ page = 1
    /\ mainPc = "await_acct"
    /\ accts[k].accountId = 2
    /\ log["account"].gets >= 1

\* C22 as stated: every page get_all_accounts yields is the body of a 200
\* response to the GET for the page index being requested, so no page is
\* yielded twice and none is passed over.
C22_YieldsRequestedPage ==
    /\ \A j \in 1..Len(yielded) : yielded[j].got = yielded[j].requested
    /\ \A i, j \in 1..Len(yielded) : i # j => yielded[i].got # yielded[j].got
    /\ \A i, j \in 1..Len(processed) : i # j => processed[i] # processed[j]

\* the registration carries the name, date and category of its own event
OwnEventDetail(reg) ==
    /\ reg.event_type.name = EventBody(reg.event_id).name[1]
    /\ reg.event_date = EventBody(reg.event_id).startDate
    /\ reg.event_type.category =
           NeonEventCategory(event_category(EventBody(reg.event_id)))

\* C23 as stated: every registration get_acct_event_registrations builds and
\* returns carries the detail of a 200 response for its own event identifier,
\* never the detail fetched for an earlier registration, also when all 10
\* attempts for its own event were answered with a transient status.
C23_OwnEventDetail ==
    /\ \A j \in 1..Len(all_registrations) : OwnEventDetail(all_registrations[j])
    /\ (evResult # None) =>
           \A j \in 1..Len(evResult.items) : OwnEventDetail(evResult.items[j])

\* the run has ended: main returned or raised, or get_discourse_data did
Terminated == mainPc \in {"done", "raised"} \/ dPc \in {"done", "raised"}

RawSortedByStart ==
    \A i, j \in 1..Len(raw.memberships) :
        i < j => raw.memberships[i].termStartDate <= raw.memberships[j].termStartDate

\* the earliest start date and the latest end date among the raw memberships
EarliestStart ==
    CHOOSE d \in {raw.memberships[j].termStartDate : j \in 1..Len(raw.memberships)} :
        \A j \in 1..Len(raw.memberships) : d <= raw.memberships[j].termStartDate
LatestEnd ==
    CHOOSE d \in {raw.memberships[j].termEndDate : j \in 1..Len(raw.memberships)} :
        \A j \in 1..Len(raw.memberships) : raw.memberships[j].termEndDate <= d

\* C25 as stated, for responses in ascending order of start date: with at
\* least one membership, first_membership_start_date is the earliest start
\* date and latest_membership_end_date the latest end date among the
\* memberships, also when an annual and a monthly membership overlap; the
\* long-form rows flagged as the last period end on that date.
C25_EarliestAndLatestDates ==
    (raw # None /\ raw.memberships # << >> /\ RawSortedByStart) =>
        /\ ColumnsDerived =>
               /\ member_df.first_membership_start = EarliestStart
               /\ member_df.last_membership_end = LatestEnd
        /\ (entry = "long_form" /\ dpc = "done") =>
               \A j \in 1..Len(member_df.items) :
                   member_df.items[j].membership_cancelled =>
                       member_df.items[j].end_date = LatestEnd

====
